---- MODULE Spec2Model ----
(***************************************************************************)
(* Model of the bottle-level aggregation engine of src/src/app.js: the     *)
(* registry bottlesByColor, the data-channel callback onData of start(),   *)
(* calculateFilteredAverage and the table rendered by updateBottleTable.   *)
(*                                                                         *)
(* Numbers.  A JavaScript number is modelled as an integer.  Readings are  *)
(* whole percents.  An average is kept exactly, as an integer number of    *)
(* 1/AvgUnit percent (AvgUnit is the least common multiple of 1..12, so    *)
(* the mean of up to twelve whole readings is a whole number of units).    *)
(* The numbers of a run are whole multiples of one unit, which is 1 but    *)
(* in SpecScaled, where it may be 2^-600: sums, differences and means of   *)
(* such doubles are as exact as those of whole numbers, and the square of  *)
(* every difference is below the smallest double and evaluates to 0.       *)
(*          The values null, NaN and Infinity are encoded as integers      *)
(* outside the range of every finite value of the model.                   *)
(*                                                                         *)
(* Strings.  The text of a reading is a sequence of one-character strings, *)
(* so that Number(text) is computed; a color is a TLA+ string.             *)
(*                                                                         *)
(* Display.  Of what onData writes to the page only the bottle table is    *)
(* state here; the message counter, the preview image and the levels text  *)
(* feed nothing back into the registry and are left out.                   *)
(***************************************************************************)
EXTENDS Integers, Sequences, FiniteSets, TLC

VARIABLES
    bottlesByColor, \* Map color -> {percentHistory, initialPercent, maxAvgPercent, capacity}
    bottleTable,    \* rows last written to bottleTableBodyEl.innerHTML, by color
    thrown,         \* the exception the last run of onData ended with, or "none"
    feed,           \* data-channel messages still to be delivered, in order
    samples,        \* the argument of a call of calculateFilteredAverage
    result,         \* what that call returned, <<>> before it returns
    unit,           \* what the numbers are whole multiples of: "one", or "tiny"
                    \* for 2^-600
    highest,        \* history variable kept along a feed: by color, the highest
                    \* maxAvgPercent seen after a message since the bottle was created
    received,       \* history variable kept along a feed: the score items
                    \* handed to onData so far, in order
    activeConnection,  \* the connection start() stored, or null
    connections,    \* the connections opened and not yet cleaned up
    starts,         \* by call of start(), in order: the await it is suspended at,
                    \* or "returned"; the connection call i opens is connection i
    stops,          \* the connections whose cleanup() a call of stop() awaits
    startBtnDisabled,  \* startBtn.disabled
    stopBtnDisabled    \* stopBtn.disabled

session ==
    <<activeConnection, connections, starts, stops, startBtnDisabled, stopBtnDisabled>>

vars ==
    <<bottlesByColor, bottleTable, thrown, feed, samples, result, unit, highest,
      received, session>>

----------------------------------------------------------------------------
(* Program constants and the encoding of JavaScript values *)

HISTORY_SIZE == 10

BOTTLE_CAPACITY_LITERS == 1

\* The least common multiple of 1..12.
AvgUnit == 8 * 9 * 5 * 7 * 11

null == -2000000001

NaN == -2000000002

Infinity == 2000000000

\* The values of fill_level_percent: a number, a string, null or undefined.
JsNumber(n) == [type |-> "number", num |-> n]

JsString(cs) == [type |-> "string", chars |-> cs]

JsNull == [type |-> "null"]

JsUndefined == [type |-> "undefined"]

\* The values of bottle_color: a string or null.
Color(c) == [type |-> "string", str |-> c]

Digits == <<"0", "1", "2", "3", "4", "5", "6", "7", "8", "9">>

IsDigit(ch) == \E i \in 1..10 : Digits[i] = ch

DigitValue(ch) == (CHOOSE i \in 1..10 : Digits[i] = ch) - 1

RECURSIVE DecimalValue(_, _)
DecimalValue(cs, acc) ==
    IF cs = <<>> THEN acc
    ELSE DecimalValue(Tail(cs), 10 * acc + DigitValue(Head(cs)))

\* Number(text): the empty text is 0, a run of decimal digits is its value,
\* any other text of the model is NaN.
StringToNumber(cs) ==
    IF cs = <<>> THEN 0
    ELSE IF \A i \in 1..Len(cs) : IsDigit(cs[i]) THEN DecimalValue(cs, 0)
    ELSE NaN

\* Number(v) of a value v.
ToNumber(v) ==
    CASE v.type = "number" -> v.num
      [] v.type = "string" -> StringToNumber(v.chars)
      [] v.type = "null" -> 0
      [] v.type = "undefined" -> NaN

IsFinite(n) == n # NaN /\ n # Infinity

toNumberOrNull(v) ==
    IF v.type = "null" \/ v.type = "undefined" THEN null
    ELSE IF IsFinite(ToNumber(v)) THEN ToNumber(v) ELSE null

----------------------------------------------------------------------------
(* calculateFilteredAverage *)

\* a + b of two history values (finite or Infinity).
JsAdd(a, b) == IF a = Infinity \/ b = Infinity THEN Infinity ELSE a + b

\* history.reduce((a, b) => a + b, 0)
RECURSIVE Sum(_)
Sum(h) == IF h = <<>> THEN 0 ELSE JsAdd(Head(h), Sum(Tail(h)))

\* The division by HISTORY_SIZE for the number of values.
QuotientBySize(sum, count) ==
    IF sum = Infinity THEN Infinity ELSE (sum * AvgUnit) \div HISTORY_SIZE

\* sum / count, in units of 1/AvgUnit.
Quotient(sum, count) ==
    IF sum = Infinity THEN Infinity ELSE (sum * AvgUnit) \div count

\* n*n times history.reduce((s, v) => s + (v - mean) ** 2, 0), where
\* mean = sum/n; NaN when the mean is Infinity (Infinity - Infinity).
\* At the unit 2^-600 every (v - mean) ** 2 is 0: it lies below 2^-1075.
RECURSIVE SquaredDeviations(_, _, _)
SquaredDeviations(h, sum, n) ==
    IF sum = Infinity THEN NaN
    ELSE IF h = <<>> \/ unit = "tiny" THEN 0
    ELSE (n * Head(h) - sum) * (n * Head(h) - sum)
         + SquaredDeviations(Tail(h), sum, n)

\* The comparison with < for <=.
StrictlyWithinThreshold(v, sum, n, sqdev) ==
    /\ sqdev # NaN
    /\ n * (n * v - sum) * (n * v - sum) < 4 * sqdev

\* The comparison with a threshold of one standard deviation.
WithinOneDeviation(v, sum, n, sqdev) ==
    /\ sqdev # NaN
    /\ n * (n * v - sum) * (n * v - sum) <= sqdev

\* Math.abs(v - mean) <= threshold, with threshold = 2 * sqrt(dev/n) and
\* dev the sum of the squared deviations: both sides are non-negative, so
\* the comparison is the one of their squares, taken times n*n*n.  Every
\* comparison with a NaN threshold is false.
WithinThreshold(v, sum, n, sqdev) ==
    /\ sqdev # NaN
    /\ n * (n * v - sum) * (n * v - sum) <= 4 * sqdev

FilterThreshold(h, sum, n, sqdev) ==
    SelectSeq(h, LAMBDA v : WithinThreshold(v, sum, n, sqdev))

calculateFilteredAverage(history) ==
    LET n == Len(history)
        sum == Sum(history)
        filteredHistory ==
            FilterThreshold(history, sum, n, SquaredDeviations(history, sum, n))
    IN  IF n = 0
        THEN [average |-> null, filteredHistory |-> <<>>, removedCount |-> 0]
        ELSE IF n < 10
        THEN [average |-> Quotient(sum, n), filteredHistory |-> history,
              removedCount |-> 0]
        ELSE [average |-> IF Len(filteredHistory) = 0 THEN null
                          ELSE Quotient(Sum(filteredHistory), Len(filteredHistory)),
              filteredHistory |-> filteredHistory,
              removedCount |-> n - Len(filteredHistory)]

----------------------------------------------------------------------------
(* onData: the per-item loop *)

\* history.filter(v => typeof v === 'number' && !isNaN(v))
ValidHistory(h) == SelectSeq(h, LAMBDA v : v # NaN /\ v # null)

RECURSIVE MaxOf(_)
MaxOf(h) ==
    IF Len(h) = 1 THEN Head(h)
    ELSE LET rest == MaxOf(Tail(h))
         IN  IF Head(h) > rest THEN Head(h) ELSE rest

\* a > b where b may be null, which the comparison converts to 0.
GreaterThan(a, b) == a > (IF b = null THEN 0 ELSE b)

NewBottle(isValidPercent, currentPercent) ==
    [percentHistory |-> IF isValidPercent THEN <<currentPercent>> ELSE <<>>,
     initialPercent |-> IF isValidPercent THEN currentPercent ELSE null,
     maxAvgPercent  |-> null,
     capacity       |-> BOTTLE_CAPACITY_LITERS]

\* The ratchet without its comparison: the new average always replaces the mark.
RatchetOverwrite(maxAvgPercent, validHistory) ==
    LET avgPercent == calculateFilteredAverage(validHistory).average
    IN  IF Len(validHistory) >= HISTORY_SIZE /\ avgPercent # null
        THEN avgPercent ELSE maxAvgPercent

\* The ratchet with > for >= in the test of the length.
RatchetBeyondSize(maxAvgPercent, validHistory) ==
    LET avgPercent == calculateFilteredAverage(validHistory).average
    IN  IF Len(validHistory) > HISTORY_SIZE
           /\ avgPercent # null
           /\ (maxAvgPercent = null \/ avgPercent > maxAvgPercent)
        THEN avgPercent ELSE maxAvgPercent

\* The ratchet that sets the mark once and never raises it.
RatchetFirstOnly(maxAvgPercent, validHistory) ==
    LET avgPercent == calculateFilteredAverage(validHistory).average
    IN  IF Len(validHistory) >= HISTORY_SIZE
           /\ avgPercent # null
           /\ maxAvgPercent = null
        THEN avgPercent ELSE maxAvgPercent

\* The ratchet of the valid branch.
RatchetFiltered(maxAvgPercent, validHistory) ==
    LET avgPercent == calculateFilteredAverage(validHistory).average
    IN  IF Len(validHistory) >= HISTORY_SIZE
           /\ avgPercent # null
           /\ (maxAvgPercent = null \/ avgPercent > maxAvgPercent)
        THEN avgPercent ELSE maxAvgPercent

\* The valid branch with pop() for shift(): the newest reading is dropped.
ValidReadingDropsNewest(bottle, currentPercent) ==
    LET pushed  == Append(bottle.percentHistory, currentPercent)
        history == IF Len(pushed) > HISTORY_SIZE
                   THEN SubSeq(pushed, 1, HISTORY_SIZE) ELSE pushed
        maxPercent == MaxOf(history)
    IN  [bottle EXCEPT
            !.percentHistory = history,
            !.maxAvgPercent  = RatchetFiltered(bottle.maxAvgPercent, ValidHistory(history)),
            !.initialPercent = IF GreaterThan(maxPercent, bottle.initialPercent)
                               THEN maxPercent ELSE bottle.initialPercent]

ValidReading(bottle, currentPercent) ==
    LET pushed  == Append(bottle.percentHistory, currentPercent)
        history == IF Len(pushed) > HISTORY_SIZE THEN Tail(pushed) ELSE pushed
        maxPercent == MaxOf(history)
    IN  [bottle EXCEPT
            !.percentHistory = history,
            !.maxAvgPercent  = RatchetFiltered(bottle.maxAvgPercent, ValidHistory(history)),
            !.initialPercent = IF GreaterThan(maxPercent, bottle.initialPercent)
                               THEN maxPercent ELSE bottle.initialPercent]

\* The invalid branch without its else: the mark is never cleared.
InvalidReadingKeepsMark(bottle) ==
    [bottle EXCEPT
        !.percentHistory = IF Len(bottle.percentHistory) > 0
                           THEN Tail(bottle.percentHistory) ELSE bottle.percentHistory]

\* The invalid branch with pop() for shift(): the newest value is removed.
InvalidReadingDropsNewest(bottle) ==
    LET history == IF Len(bottle.percentHistory) > 0
                   THEN SubSeq(bottle.percentHistory, 1, Len(bottle.percentHistory) - 1)
                   ELSE bottle.percentHistory
    IN  [bottle EXCEPT
            !.percentHistory = history,
            !.maxAvgPercent  = IF Len(ValidHistory(history)) >= HISTORY_SIZE
                               THEN bottle.maxAvgPercent ELSE null]

InvalidReading(bottle) ==
    LET history == IF Len(bottle.percentHistory) > 0
                   THEN Tail(bottle.percentHistory) ELSE bottle.percentHistory
        validHistory == ValidHistory(history)
        avgPercent == Quotient(Sum(validHistory), Len(validHistory))
    IN  [bottle EXCEPT
            !.percentHistory = history,
            !.maxAvgPercent  =
                IF Len(validHistory) >= HISTORY_SIZE
                THEN IF bottle.maxAvgPercent = null \/ avgPercent > bottle.maxAvgPercent
                     THEN avgPercent ELSE bottle.maxAvgPercent
                ELSE null]

\* The iteration with one history for all colors: the reading is applied
\* to every bottle of the registry.
IngestEvery(bottles, bottleData) ==
    LET color == bottleData.bottle_color
        currentPercent == ToNumber(bottleData.fill_level_percent)
        isValidPercent == currentPercent # null /\ currentPercent # NaN
    IN  IF color.type = "null" THEN bottles
        ELSE [c \in DOMAIN bottles \cup {color.str} |->
                IF c \notin DOMAIN bottles
                THEN NewBottle(isValidPercent, currentPercent)
                ELSE IF isValidPercent THEN ValidReading(bottles[c], currentPercent)
                ELSE InvalidReading(bottles[c])]

\* What one iteration does to the registry for the object bottleData.
Ingest(bottles, bottleData) ==
    LET color == bottleData.bottle_color
        currentPercent == ToNumber(bottleData.fill_level_percent)
        isValidPercent == currentPercent # null /\ currentPercent # NaN
    IN  IF color.type = "null" THEN bottles
        ELSE IF color.str \notin DOMAIN bottles
        THEN [c \in DOMAIN bottles \cup {color.str} |->
                IF c = color.str THEN NewBottle(isValidPercent, currentPercent)
                ELSE bottles[c]]
        ELSE [bottles EXCEPT ![color.str] =
                IF isValidPercent THEN ValidReading(@, currentPercent)
                ELSE InvalidReading(@)]

\* A score item is an object, a string (modelled by what JSON.parse makes
\* of it: a SyntaxError, null, or an object) or any other value.
ObjectItem(color, percent) ==
    [type |-> "object", bottle_color |-> color, fill_level_percent |-> percent]

StringItem(parse, color, percent) ==
    [type |-> "string", parse |-> parse, bottle_color |-> color,
     fill_level_percent |-> percent]

OtherItem == [type |-> "other"]

\* The loop over scores: the registry it leaves and whether it threw.
RECURSIVE ProcessScores(_, _)
ProcessScores(bottles, scores) ==
    IF scores = <<>> THEN [bottles |-> bottles, threw |-> FALSE]
    ELSE LET scoreItem == Head(scores)
         IN  IF scoreItem.type = "string" /\ scoreItem.parse = "SyntaxError"
             THEN ProcessScores(bottles, Tail(scores))
             ELSE IF scoreItem.type = "string" /\ scoreItem.parse = "null"
             THEN [bottles |-> bottles, threw |-> TRUE]
             ELSE IF scoreItem.type = "other"
             THEN ProcessScores(bottles, Tail(scores))
             ELSE ProcessScores(Ingest(bottles, scoreItem), Tail(scores))

----------------------------------------------------------------------------
(* updateBottleTable *)

\* The difference taken the other way round and not clamped.
ConsumedReversed(maxAvgPercent, avgCurrentPercent) ==
    avgCurrentPercent - maxAvgPercent

\* Math.max(0, maxAvgPercent - avgCurrentPercent)
Consumed(maxAvgPercent, avgCurrentPercent) ==
    IF avgCurrentPercent = Infinity THEN 0
    ELSE IF maxAvgPercent - avgCurrentPercent > 0
         THEN maxAvgPercent - avgCurrentPercent ELSE 0

\* The condition without the test of the mark.
ConsumedWheneverData(hasValidData, maxAvgPercent) == hasValidData

\* if (hasValidData && bottle.maxAvgPercent !== null)
ConsumedDefined(hasValidData, maxAvgPercent) ==
    hasValidData /\ maxAvgPercent # null

\* One row: the values its cells are formatted from, null where the cell
\* reads 'unknown'.  consumedPercent is in units of 1/AvgUnit percent and
\* consumedLiters in units of 1/(100*AvgUnit) litre.
\* threw: avgCurrentPercent.toFixed(1) on a null average.
TableRow(bottle) ==
    LET history == ValidHistory(bottle.percentHistory)
        hasValidData == Len(history) > 0
        avgCurrentPercent ==
            IF hasValidData THEN calculateFilteredAverage(history).average ELSE null
        defined == ConsumedDefined(hasValidData, bottle.maxAvgPercent)
        consumedPercent ==
            IF defined THEN Consumed(bottle.maxAvgPercent, avgCurrentPercent) ELSE null
    IN  [avgCurrentPercent |-> avgCurrentPercent,
         consumedPercent   |-> consumedPercent,
         consumedLiters    |-> IF defined THEN consumedPercent * bottle.capacity
                               ELSE null,
         threw             |-> hasValidData /\ avgCurrentPercent = null]

\* The rows in the order of the sorted colors, or the throw of the first
\* row that throws (innerHTML is then not assigned).
updateBottleTable(bottles) ==
    LET rows == [c \in DOMAIN bottles |-> TableRow(bottles[c])]
    IN  [threw |-> \E c \in DOMAIN rows : rows[c].threw,
         rows  |-> [c \in DOMAIN rows |->
                      [avgCurrentPercent |-> rows[c].avgCurrentPercent,
                       consumedPercent   |-> rows[c].consumedPercent,
                       consumedLiters    |-> rows[c].consumedLiters]]]

----------------------------------------------------------------------------
(* The data-channel callback: the loop over scores, then the table.  A     *)
(* throw leaves what the loop did so far and does not write the table.     *)

onData(scores) ==
    \E done \in {ProcessScores(bottlesByColor, scores)} :
    \E shown \in {updateBottleTable(done.bottles)} :
        /\ bottlesByColor' = done.bottles
        /\ IF done.threw \/ shown.threw
           THEN /\ thrown' = "TypeError"
                /\ UNCHANGED bottleTable
           ELSE /\ thrown' = "none"
                /\ bottleTable' = shown.rows

\* The state after the module is loaded: an empty registry, the table
\* showing "Waiting for data...".
Constructed ==
    /\ bottlesByColor = <<>>
    /\ bottleTable = <<>>
    /\ thrown = "none"
    /\ highest = <<>>
    /\ received = <<>>

\* The session after the module is loaded, but for stopBtn, whose state
\* comes with the page.
Loaded ==
    /\ activeConnection = null
    /\ connections = {}
    /\ starts = <<>>
    /\ stops = <<>>
    /\ startBtnDisabled = FALSE

\* The session as a first start() that met no failure leaves it.
Connected ==
    /\ activeConnection = 1
    /\ connections = {1}
    /\ starts = <<"returned">>
    /\ stops = <<>>
    /\ startBtnDisabled = TRUE
    /\ stopBtnDisabled = FALSE

\* The history variable after a message of a feed.
Observe ==
    highest' =
        [c \in DOMAIN bottlesByColor' |->
            LET now == bottlesByColor'[c].maxAvgPercent
                old == IF c \in DOMAIN highest THEN highest[c] ELSE null
            IN  IF old = null \/ (now # null /\ now > old) THEN now ELSE old]

RECURSIVE Batches(_, _)
Batches(items, k) ==
    IF k = 0 THEN {<<>>}
    ELSE Batches(items, k - 1)
         \cup {Append(b, i) : b \in {s \in Batches(items, k - 1) : Len(s) = k - 1},
                              i \in items}

----------------------------------------------------------------------------
(* Spec: the engine under every sequence of messages of at most MaxBatch   *)
(* items each, over two levels and the kinds of invalid reading.           *)

MaxBatch == 1

Items ==
    {ObjectItem(Color("red"), p) :
        p \in {JsNumber(60), JsNumber(80), JsString(<<"8", "0">>), JsUndefined}}
    \cup {ObjectItem(JsNull, JsNumber(60)), OtherItem}

Data == Batches(Items, MaxBatch)

Init ==
    /\ Constructed
    /\ Connected
    /\ feed = <<>>
    /\ samples = <<>>
    /\ result = <<>>
    /\ unit = "one"

Receive ==
    /\ \E scores \in Data : onData(scores)
    /\ UNCHANGED <<feed, samples, result, unit, highest, received, session>>

Next == Receive

Spec == Init /\ [][Next]_vars

----------------------------------------------------------------------------
(* SpecFeed: one session fed a fixed sequence of messages, delivered in    *)
(* order, one run of onData each.  The event loop runs the callback of     *)
(* every message that has arrived, hence the weak fairness of Deliver.     *)

Message(color, percent) == <<ObjectItem(Color(color), percent)>>

Repeat(message, k) == [i \in 1..k |-> message]

RECURSIVE DecimalText(_)
DecimalText(n) ==
    IF n < 10 THEN <<Digits[n + 1]>>
    ELSE Append(DecimalText(n \div 10), Digits[(n % 10) + 1])

\* 10, 20, ..., 100 as numbers, as texts, and as the items of one message.
Ramp(color) == [i \in 1..HISTORY_SIZE |-> Message(color, JsNumber(10 * i))]

RampText(color) ==
    [i \in 1..HISTORY_SIZE |-> Message(color, JsString(DecimalText(10 * i)))]

RampBatch(color) ==
    <<[i \in 1..HISTORY_SIZE |-> ObjectItem(Color(color), JsNumber(10 * i))]>>

\* Nine readings of 50, then an invalid one.
Eroded(color, invalid) ==
    Repeat(Message(color, JsNumber(50)), HISTORY_SIZE - 1)
    \o <<Message(color, invalid)>>

\* Ten readings of 80, then ten of 60.
Drawdown(color) ==
    Repeat(Message(color, JsNumber(80)), HISTORY_SIZE)
    \o Repeat(Message(color, JsNumber(60)), HISTORY_SIZE)

\* Ten readings of 80, then 60, an invalid reading, and 60 again.
Relapse(color, invalid) ==
    Repeat(Message(color, JsNumber(80)), HISTORY_SIZE)
    \o <<Message(color, JsNumber(60)), Message(color, invalid),
         Message(color, JsNumber(60))>>

\* Every sequence of ten readings over two levels.
Levels == {JsNumber(60), JsNumber(80)}

TwoLevel(color) ==
    {[i \in 1..HISTORY_SIZE |-> Message(color, f[i])] :
        f \in [1..HISTORY_SIZE -> Levels]}

\* The values a reading and a score item can take.
RawReadings ==
    {JsNumber(80), JsNumber(0), JsNumber(NaN), JsNumber(Infinity),
     JsString(<<"8", "0">>), JsString(<<>>), JsString(<<"a", "b", "c">>),
     JsNull, JsUndefined}

RawItems ==
    {ObjectItem(Color("red"), p) : p \in RawReadings}
    \cup {ObjectItem(JsNull, JsNumber(80)),
          StringItem("object", Color("red"), JsNumber(80)),
          StringItem("SyntaxError", JsNull, JsNull),
          StringItem("null", JsNull, JsNull),
          OtherItem}

\* Two items of any kind, in two messages or in one; nine readings of 80
\* and then an item of any kind.
Probes ==
    {<<(<<i>>), (<<j>>)>> : i \in RawItems, j \in RawItems}
    \cup {<<(<<i, j>>)>> : i \in RawItems, j \in RawItems}
    \cup {Repeat(Message("red", JsNumber(80)), HISTORY_SIZE - 1) \o <<(<<i>>)>> :
            i \in RawItems}

Feeds ==
    {Ramp("red"), RampText("red"), RampBatch("red"), Drawdown("red")}
    \cup {Eroded("red", p) : p \in {JsUndefined, JsString(<<"a", "b", "c">>)}}
    \cup {Relapse("red", p) : p \in {JsUndefined, JsNumber(NaN)}}
    \cup TwoLevel("red")
    \cup Probes

InitFeed ==
    /\ Constructed
    /\ Connected
    /\ feed \in Feeds
    /\ samples = <<>>
    /\ result = <<>>
    /\ unit = "one"

Deliver ==
    /\ feed # <<>>
    /\ onData(Head(feed))
    /\ feed' = Tail(feed)
    /\ Observe
    /\ received' = received \o Head(feed)
    /\ UNCHANGED <<samples, result, unit, session>>

NextFeed == Deliver

SpecFeed == InitFeed /\ [][NextFeed]_vars /\ WF_vars(Deliver)

----------------------------------------------------------------------------
(* SpecCalc: calculateFilteredAverage called once on a sequence of up to   *)
(* MaxSamples finite numbers.                                              *)

MaxSamples == 11

RECURSIVE SeqsOver(_, _)
SeqsOver(values, k) ==
    IF k = 0 THEN {<<>>}
    ELSE SeqsOver(values, k - 1)
         \cup {Append(h, v) : h \in {s \in SeqsOver(values, k - 1) : Len(s) = k - 1},
                              v \in values}

\* Every sequence over two levels; and runs of one low or high sample,
\* then equal middle samples, then one high sample.
Spread ==
    {<<lo>> \o [i \in 1..k |-> 50] \o <<hi>> :
        lo \in {0, 10, 50}, hi \in {50, 90, 100}, k \in 0..(MaxSamples - 2)}

Samples == SeqsOver({60, 80}, MaxSamples) \cup Spread

InitCalc ==
    /\ Constructed
    /\ Connected
    /\ feed = <<>>
    /\ samples \in Samples
    /\ result = <<>>
    /\ unit = "one"

Calculate ==
    /\ result = <<>>
    /\ result' = <<calculateFilteredAverage(samples)>>
    /\ UNCHANGED <<bottlesByColor, bottleTable, thrown, feed, samples, unit, highest,
                   received, session>>

NextCalc == Calculate

SpecCalc == InitCalc /\ [][NextCalc]_vars

----------------------------------------------------------------------------
(* SpecScaled: calculateFilteredAverage called once on the same sequences, *)
(* as whole numbers or as multiples of 2^-600.                             *)

InitScaled ==
    /\ Constructed
    /\ Connected
    /\ feed = <<>>
    /\ samples \in Samples
    /\ result = <<>>
    /\ unit \in {"one", "tiny"}

SpecScaled == InitScaled /\ [][NextCalc]_vars

----------------------------------------------------------------------------
(* SpecSession: the page from its load on.  start() and stop() run when    *)
(* their buttons are clicked, which a disabled button prevents, and are    *)
(* suspended at each await; between two steps of theirs any callback may   *)
(* run.  A connection delivers data from the moment it is opened until it  *)
(* is cleaned up.  At most MaxStarts calls of start() get past its test.   *)

MaxStarts == 2

SessionColors == {"red", "blue"}

SessionItems ==
    {ObjectItem(Color(c), p) : c \in SessionColors, p \in {JsNumber(80), JsUndefined}}

\* A message without scores, or with one item.
SessionData == {<<>>} \cup {<<i>> : i \in SessionItems}

\* stop() without bottlesByColor.clear().
KeepRegistry(bottles) == bottles

\* bottlesByColor.clear()
ClearRegistry(bottles) == <<>>

\* The catch of start().
StartFailed(i) ==
    /\ starts' = [starts EXCEPT ![i] = "returned"]
    /\ startBtnDisabled' = FALSE
    /\ activeConnection' = null

InitSession ==
    /\ Constructed
    /\ Loaded
    /\ stopBtnDisabled \in BOOLEAN
    /\ feed = <<>>
    /\ samples = <<>>
    /\ result = <<>>
    /\ unit = "one"

\* A click on startBtn: start() up to its first await.
StartClick ==
    /\ ~startBtnDisabled
    /\ IF activeConnection # null
       THEN UNCHANGED session
       ELSE /\ Len(starts) < MaxStarts
            /\ startBtnDisabled' = TRUE
            /\ starts' = Append(starts, "connect")
            /\ UNCHANGED <<activeConnection, connections, stops, stopBtnDisabled>>
    /\ UNCHANGED <<bottlesByColor, bottleTable, thrown, feed, samples, result, unit,
                   highest, received>>

\* connectWebcamToRoboflowWebRTC resolves: start() up to remoteStream().
ConnectResolves ==
    /\ \E i \in DOMAIN starts :
          /\ starts[i] = "connect"
          /\ connections' = connections \cup {i}
          /\ activeConnection' = i
          /\ starts' = [starts EXCEPT ![i] = "remoteStream"]
    /\ UNCHANGED <<stops, startBtnDisabled, stopBtnDisabled>>
    /\ UNCHANGED <<bottlesByColor, bottleTable, thrown, feed, samples, result, unit,
                   highest, received>>

\* connectWebcamToRoboflowWebRTC rejects: no connection, the catch.
ConnectRejects ==
    /\ \E i \in DOMAIN starts :
          /\ starts[i] = "connect"
          /\ StartFailed(i)
    /\ UNCHANGED <<connections, stops, stopBtnDisabled>>
    /\ UNCHANGED <<bottlesByColor, bottleTable, thrown, feed, samples, result, unit,
                   highest, received>>

\* connection.remoteStream() resolves: start() up to videoEl.play().
StreamResolves ==
    /\ \E i \in DOMAIN starts :
          /\ starts[i] = "remoteStream"
          /\ starts' = [starts EXCEPT ![i] = "play"]
    /\ UNCHANGED <<activeConnection, connections, stops, startBtnDisabled,
                   stopBtnDisabled>>
    /\ UNCHANGED <<bottlesByColor, bottleTable, thrown, feed, samples, result, unit,
                   highest, received>>

\* connection.remoteStream() rejects: the catch.
StreamRejects ==
    /\ \E i \in DOMAIN starts :
          /\ starts[i] = "remoteStream"
          /\ StartFailed(i)
    /\ UNCHANGED <<connections, stops, stopBtnDisabled>>
    /\ UNCHANGED <<bottlesByColor, bottleTable, thrown, feed, samples, result, unit,
                   highest, received>>

\* videoEl.play() settles either way: start() to its end.
Played ==
    /\ \E i \in DOMAIN starts :
          /\ starts[i] = "play"
          /\ starts' = [starts EXCEPT ![i] = "returned"]
    /\ stopBtnDisabled' = FALSE
    /\ UNCHANGED <<activeConnection, connections, stops, startBtnDisabled>>
    /\ UNCHANGED <<bottlesByColor, bottleTable, thrown, feed, samples, result, unit,
                   highest, received>>

\* A click on stopBtn: stop() up to its await of cleanup().
StopClick ==
    /\ ~stopBtnDisabled
    /\ IF activeConnection = null
       THEN UNCHANGED session
       ELSE /\ stopBtnDisabled' = TRUE
            /\ stops' = Append(stops, activeConnection)
            /\ UNCHANGED <<activeConnection, connections, starts, startBtnDisabled>>
    /\ UNCHANGED <<bottlesByColor, bottleTable, thrown, feed, samples, result, unit,
                   highest, received>>

\* cleanup() settles, the connection released: the finally of stop().
CleanedUp ==
    /\ \E k \in DOMAIN stops :
          /\ connections' = connections \ {stops[k]}
          /\ stops' = [j \in 1..(Len(stops) - 1) |->
                          IF j < k THEN stops[j] ELSE stops[j + 1]]
    /\ activeConnection' = null
    /\ startBtnDisabled' = FALSE
    /\ stopBtnDisabled' = TRUE
    /\ \E cleared \in {ClearRegistry(bottlesByColor)} :
          /\ bottlesByColor' = cleared
          /\ bottleTable' = updateBottleTable(cleared).rows
    /\ UNCHANGED <<starts, thrown, feed, samples, result, unit, highest, received>>

\* A message on the data channel of a connection that is open.
DataArrives ==
    /\ connections # {}
    /\ \E scores \in SessionData : onData(scores)
    /\ UNCHANGED <<feed, samples, result, unit, highest, received, session>>

NextSession ==
    \/ StartClick
    \/ ConnectResolves
    \/ ConnectRejects
    \/ StreamResolves
    \/ StreamRejects
    \/ Played
    \/ StopClick
    \/ CleanedUp
    \/ DataArrives

SpecSession == InitSession /\ [][NextSession]_vars

----------------------------------------------------------------------------
(* Vocabulary of the properties *)

Known == DOMAIN bottlesByColor

History(c) == bottlesByColor[c].percentHistory

HighWater(c) == bottlesByColor[c].maxAvgPercent

\* The high-water average of c, null for a color not in the registry.
Mark(c) == IF c \in Known THEN HighWater(c) ELSE null

\* k whole percents as an average.
Percent(k) == k * AvgUnit

\* A reading that is a finite number, or a non-empty text of one.
FiniteReading(p) ==
    \/ p.type = "number" /\ p.num # NaN /\ p.num # Infinity
    \/ p.type = "string" /\ p.chars # <<>> /\ StringToNumber(p.chars) # NaN

\* The items of a set that carry a reading for color c.
ReadingsFor(items, c) ==
    {i \in items : /\ i.type = "object" \/ (i.type = "string" /\ i.parse = "object")
                   /\ i.bottle_color = Color(c)}

\* The state of color c after one more item.
After(item, c) == Ingest(bottlesByColor, item)[c]

\* The filtered average by its definition: the samples within two
\* population standard deviations of the mean, where the variance is the
\* mean of the squares less the square of the mean.
RECURSIVE SumAt(_, _)
SumAt(h, I) ==
    IF I = {} THEN 0
    ELSE LET i == CHOOSE j \in I : TRUE IN h[i] + SumAt(h, I \ {i})

SumOfSquares(h) == SumAt([i \in 1..Len(h) |-> h[i] * h[i]], 1..Len(h))

RetainedAt(h) ==
    LET n == Len(h)
        t == SumAt(h, 1..n)
    IN  IF n < HISTORY_SIZE THEN 1..n
        ELSE {i \in 1..n :
                (n * h[i] - t) * (n * h[i] - t) <= 4 * (n * SumOfSquares(h) - t * t)}

\* a is the unweighted mean of the retained samples (null when none is).
IsFilteredAverage(a, h) ==
    LET K == RetainedAt(h)
    IN  IF K = {} THEN a = null
        ELSE a # null /\ a * Cardinality(K) = SumAt(h, K) * AvgUnit

\* The retained samples in their order.
Retained(h) ==
    LET K == RetainedAt(h)
    IN  [j \in 1..Cardinality(K) |->
            h[CHOOSE i \in K : Cardinality({k \in K : k < i}) = j - 1]]

TenOf(v) == [i \in 1..HISTORY_SIZE |-> v]

\* The item carries a reading for color c that is a finite number or the
\* text of one.
IsFiniteReadingFor(item, c) ==
    /\ item.type = "object" \/ (item.type = "string" /\ item.parse = "object")
    /\ item.bottle_color = Color(c)
    /\ FiniteReading(item.fill_level_percent)

\* The row of color c, when the last run of onData wrote the table.
Row(c) == bottleTable[c]

\* No call of start() or stop() is suspended at an await.
NoCallInProgress ==
    /\ stops = <<>>
    /\ \A i \in DOMAIN starts : starts[i] = "returned"

\* The message carries an item for color c.
Mentions(scores, c) ==
    \E i \in 1..Len(scores) :
        scores[i].type # "other" /\ scores[i].bottle_color = Color(c)

----------------------------------------------------------------------------
\* C1: in every reachable state, a valid reading for a known color whose
\* high-water average is set leaves it set and no lower; and when the mark
\* is 80 and the history has become ten readings of 60, the table shows a
\* current average of 60 and 20 percent consumed.
C1_Ratchet ==
    \A c \in Known :
        /\ \A item \in ReadingsFor(Items, c) :
              FiniteReading(item.fill_level_percent) /\ HighWater(c) # null
              => /\ After(item, c).maxAvgPercent # null
                 /\ After(item, c).maxAvgPercent >= HighWater(c)
        /\ History(c) = TenOf(60) /\ HighWater(c) = Percent(80)
           => /\ bottleTable[c].avgCurrentPercent = Percent(60)
              /\ bottleTable[c].consumedPercent = Percent(20)

C1_Witness ==
    /\ "red" \in Known
    /\ History("red") = TenOf(60)
    /\ HighWater("red") = Percent(80)
    /\ bottleTable["red"].consumedPercent = Percent(20)

----------------------------------------------------------------------------
\* C2 as claimed: once the high-water average of a color has held the
\* value x, it never later holds a set value lower than x, whatever valid
\* and invalid readings follow.
C2_LifetimeMonotone ==
    \A c \in Known :
        HighWater(c) # null /\ highest[c] # null => HighWater(c) >= highest[c]

\* C2 as amended: a single reading of any kind, for a known color whose
\* high-water average is set, leaves it either unset or no lower, and only
\* an invalid reading leaves it unset.
C2_NoLowerWhileSet ==
    \A c \in Known : \A item \in ReadingsFor(RawItems \cup Items, c) :
        HighWater(c) # null
        => /\ \/ After(item, c).maxAvgPercent = null
              \/ After(item, c).maxAvgPercent >= HighWater(c)
           /\ After(item, c).maxAvgPercent = null
              => ToNumber(item.fill_level_percent) = NaN

\* The mark was 80, an invalid reading unset it, and it is set again at 76.
C2_Witness ==
    /\ "red" \in Known
    /\ feed = <<>>
    /\ bottlesByColor["red"].initialPercent = 80
    /\ History("red") = [i \in 1..HISTORY_SIZE |-> IF i <= 8 THEN 80 ELSE 60]
    /\ HighWater("red") = Percent(76)

----------------------------------------------------------------------------
----------------------------------------------------------------------------
\* C4: every history has at most HISTORY_SIZE entries; a valid reading for
\* a known color becomes the last entry, the length grows by one up to
\* HISTORY_SIZE, and the entries before it are the old ones in their
\* order, less the oldest when the history was full; for a new color the
\* history is that reading alone.
C4_BoundedFifo ==
    /\ \A item \in ReadingsFor(Items, "red") :
          FiniteReading(item.fill_level_percent) /\ "red" \notin Known
          => After(item, "red").percentHistory = <<ToNumber(item.fill_level_percent)>>
    /\ \A c \in Known :
        /\ Len(History(c)) <= HISTORY_SIZE
        /\ \A item \in ReadingsFor(Items, c) :
              FiniteReading(item.fill_level_percent)
              => LET old == History(c)
                     new == After(item, c).percentHistory
                 IN  /\ new[Len(new)] = ToNumber(item.fill_level_percent)
                     /\ IF Len(old) < HISTORY_SIZE
                        THEN /\ Len(new) = Len(old) + 1
                             /\ SubSeq(new, 1, Len(old)) = old
                        ELSE /\ Len(new) = HISTORY_SIZE
                             /\ SubSeq(new, 1, HISTORY_SIZE - 1)
                                = SubSeq(old, 2, HISTORY_SIZE)

\* A full history all of whose 80s but one have been evicted by valid
\* readings (the mark, never unset since, still is 80).
C4_Witness ==
    /\ "red" \in Known
    /\ History("red") = [i \in 1..HISTORY_SIZE |-> IF i = 1 THEN 80 ELSE 60]
    /\ HighWater("red") = Percent(80)

----------------------------------------------------------------------------
\* C7: for every color of the table, the consumed percent and the consumed
\* quantity are defined exactly when the history holds a valid value (the
\* current average is known) and the high-water average is set; then the
\* consumed percent is the mark less the current filtered average, or 0 if
\* that is negative, and the quantity is that percent of the capacity; a
\* color with no valid value shows all three cells unknown.
C7_Snapshot ==
    /\ DOMAIN bottleTable = Known
    /\ \A c \in Known :
        LET row == bottleTable[c]
            known == Len(ValidHistory(History(c))) > 0
            defined == known /\ HighWater(c) # null
        IN  /\ known => IsFilteredAverage(row.avgCurrentPercent, History(c))
            /\ ~known => row.avgCurrentPercent = null
            /\ row.consumedPercent # null <=> defined
            /\ row.consumedLiters # null <=> defined
            /\ defined =>
                  /\ row.consumedPercent =
                        IF HighWater(c) >= row.avgCurrentPercent
                        THEN HighWater(c) - row.avgCurrentPercent ELSE 0
                  /\ row.consumedLiters = row.consumedPercent * bottlesByColor[c].capacity

\* A row with a positive consumption.
C7_Witness ==
    /\ "red" \in Known
    /\ HighWater("red") = Percent(80)
    /\ bottleTable["red"].avgCurrentPercent = Percent(76)
    /\ bottleTable["red"].consumedPercent = Percent(4)
    /\ bottleTable["red"].consumedLiters = Percent(4) * BOTTLE_CAPACITY_LITERS

----------------------------------------------------------------------------
\* C8: whenever a row's consumed percent is defined it is at least 0, and
\* so is its consumed quantity.
C8_NonNegative ==
    \A c \in DOMAIN bottleTable :
        bottleTable[c].consumedPercent # null
        => /\ bottleTable[c].consumedPercent >= 0
           /\ bottleTable[c].consumedLiters >= 0

\* A defined consumption of 0: the mark equals the current average.
C8_Witness ==
    /\ "red" \in Known
    /\ HighWater("red") # null
    /\ bottleTable["red"].avgCurrentPercent = HighWater("red")
    /\ bottleTable["red"].consumedPercent = 0

----------------------------------------------------------------------------
\* C5: a reading is taken as valid only if it is a finite number or the
\* text of one; any other reading (null, undefined, an empty or non-numeric
\* text, NaN, Infinity) appends nothing: for a known color it only removes
\* the oldest entry, for a new color it creates a bottle with an empty
\* history and no initial level.
C5_Classification ==
    \A item \in ReadingsFor(RawItems, "red") :
        ~FiniteReading(item.fill_level_percent)
        => LET after == Ingest(bottlesByColor, item)["red"]
           IN  IF "red" \in Known
               THEN after.percentHistory =
                        IF History("red") = <<>> THEN <<>> ELSE Tail(History("red"))
               ELSE after.percentHistory = <<>> /\ after.initialPercent = null

----------------------------------------------------------------------------
\* C6: no run of onData, on any message, ends with an exception.
C6_NoThrow == thrown = "none"

----------------------------------------------------------------------------
----------------------------------------------------------------------------
\* C10: a history shorter than HISTORY_SIZE goes with an unset high-water
\* average; the message that brings a history of finite readings to
\* HISTORY_SIZE entries, from fewer or from no bottle, sets the mark to the
\* filtered average of those entries, which is the current average of the
\* row; and for 10, 20, ..., 100 that is 55 with nothing removed.
C10_FirstMark ==
    /\ [](\A c \in Known : Len(History(c)) < HISTORY_SIZE => HighWater(c) = null)
    /\ [][\A c \in DOMAIN bottlesByColor' :
            LET new == bottlesByColor'[c]
            IN  /\ c \in Known => Len(History(c)) < HISTORY_SIZE
                /\ Len(new.percentHistory) = HISTORY_SIZE
                /\ \A i \in 1..HISTORY_SIZE : IsFinite(new.percentHistory[i])
                => /\ IsFilteredAverage(new.maxAvgPercent, new.percentHistory)
                   /\ thrown' = "none"
                   /\ bottleTable'[c].avgCurrentPercent = new.maxAvgPercent]_vars
    /\ []("red" \in Known /\ History("red") = [i \in 1..HISTORY_SIZE |-> 10 * i]
          => /\ HighWater("red") = Percent(55)
             /\ bottleTable["red"].avgCurrentPercent = Percent(55)
             /\ calculateFilteredAverage(History("red")).removedCount = 0)

C10_Witness ==
    /\ "red" \in Known
    /\ History("red") = [i \in 1..HISTORY_SIZE |-> 10 * i]
    /\ HighWater("red") = Percent(55)
    /\ bottleTable["red"].avgCurrentPercent = Percent(55)

----------------------------------------------------------------------------
\* C11: when all that has been received is k readings for one new color,
\* 1 <= k < HISTORY_SIZE, each a finite number or the text of one, the
\* history is those k values in order and the current average of the row
\* is their arithmetic mean.
C11_MeanOfFew ==
    LET k == Len(received)
    IN  /\ k >= 1
        /\ k < HISTORY_SIZE
        /\ \A i \in 1..k : IsFiniteReadingFor(received[i], "red")
        => /\ "red" \in Known
           /\ thrown = "none"
           /\ History("red") = [i \in 1..k |-> ToNumber(received[i].fill_level_percent)]
           /\ Row("red").avgCurrentPercent # null
           /\ Row("red").avgCurrentPercent * k
              = SumAt([i \in 1..k |-> ToNumber(received[i].fill_level_percent)], 1..k)
                * AvgUnit

\* Nine readings, three of 60 and then six of 80: the average is 660/9.
C11_Witness ==
    /\ Len(received) = HISTORY_SIZE - 1
    /\ "red" \in Known
    /\ History("red") = [i \in 1..(HISTORY_SIZE - 1) |-> IF i <= 3 THEN 60 ELSE 80]
    /\ Row("red").avgCurrentPercent * 9 = 660 * AvgUnit

----------------------------------------------------------------------------
----------------------------------------------------------------------------
\* C13: a step changes the bottle of a color only if it is a message with
\* an item for that color, or removes it only by the clearing of the whole
\* registry at the end of stop(); the capacity of a bottle never changes;
\* a message without an item for a color leaves its bottle as it is; and
\* the table is a function of the registry alone, so that a step which
\* leaves the registry as it is leaves the table as it is, and writing the
\* table again gives the same rows.
C13_Frame ==
    /\ [][\A c \in Known :
            IF c \in DOMAIN bottlesByColor'
            THEN /\ bottlesByColor'[c].capacity = bottlesByColor[c].capacity
                 /\ bottlesByColor'[c] # bottlesByColor[c]
                    => \E scores \in SessionData :
                          /\ Mentions(scores, c)
                          /\ bottlesByColor' = ProcessScores(bottlesByColor, scores).bottles
            ELSE /\ bottlesByColor' = <<>>
                 /\ Len(stops') < Len(stops)]_vars
    /\ [][bottlesByColor' = bottlesByColor => bottleTable' = bottleTable]_vars
    /\ [](\A c \in Known :
            /\ bottlesByColor[c].capacity = BOTTLE_CAPACITY_LITERS
            /\ \A scores \in SessionData :
                  ~Mentions(scores, c)
                  => ProcessScores(bottlesByColor, scores).bottles[c] = bottlesByColor[c])
    /\ [](updateBottleTable(bottlesByColor).rows = bottleTable)

\* Two bottles with histories of their own.
C13_Witness ==
    /\ Known = {"red", "blue"}
    /\ History("red") = <<80, 80, 80>>
    /\ History("blue") = <<>>
    /\ bottlesByColor["blue"].initialPercent = 80
    /\ Row("red").avgCurrentPercent = Percent(80)
    /\ Row("blue").avgCurrentPercent = null

----------------------------------------------------------------------------
\* C14: the registry is empty when the page is loaded; a reading, valid or
\* not, for a color that is not in the registry creates its bottle, with
\* that reading alone or no value as history and no high-water average,
\* and an item without a color creates none; a bottle appears only by a
\* message with an item for its color; a step removes a bottle only as the
\* end of stop(), which leaves the registry and the table empty.
C14_Lifecycle ==
    /\ Known = {}
    /\ [](/\ Ingest(bottlesByColor, ObjectItem(JsNull, JsNumber(80))) = bottlesByColor
          /\ \A c \in SessionColors \ Known :
             \A item \in ReadingsFor(SessionItems, c) :
                LET after == Ingest(bottlesByColor, item)
                    value == ToNumber(item.fill_level_percent)
                IN  /\ DOMAIN after = Known \cup {c}
                    /\ after[c].percentHistory =
                           IF value = NaN THEN <<>> ELSE <<value>>
                    /\ after[c].maxAvgPercent = null
                    /\ after[c].initialPercent = IF value = NaN THEN null ELSE value)
    /\ [][\A c \in DOMAIN bottlesByColor' \ Known :
            \E item \in ReadingsFor(SessionItems, c) :
                bottlesByColor' = Ingest(bottlesByColor, item)]_vars
    /\ [][Known \subseteq DOMAIN bottlesByColor' \/ Len(stops') < Len(stops)]_vars
    /\ [][Len(stops') < Len(stops)
          => bottlesByColor' = <<>> /\ bottleTable' = <<>>]_vars

\* The first connection has been cleaned up, and with it the registry
\* cleared; in the session of the second a reading has created a bottle,
\* which holds nothing but that reading.
C14_Witness ==
    /\ starts = <<"returned", "returned">>
    /\ activeConnection = 2
    /\ connections = {2}
    /\ Known = {"red"}
    /\ History("red") = <<80>>
    /\ HighWater("red") = null

----------------------------------------------------------------------------
\* C19: at most one connection is open at a time; and whenever no call of
\* start() or stop() is in progress, every open connection is the one held
\* in activeConnection, so that with activeConnection null none is open
\* and no data callback can run.
C19_NoOrphan ==
    /\ Cardinality(connections) <= 1
    /\ NoCallInProgress => \A i \in connections : i = activeConnection

----------------------------------------------------------------------------
\* C15: right after a valid reading for a color its initial level is set
\* and is at least every value of its history, also when the bottle was
\* created by an invalid reading and when the reading is 0; a valid
\* reading never lowers a set initial level, and an invalid reading leaves
\* the initial level as it is.
C15_RisingPeak ==
    /\ /\ received # <<>>
       /\ thrown = "none"
       /\ IsFiniteReadingFor(received[Len(received)], "red")
       => /\ bottlesByColor["red"].initialPercent # null
          /\ \A i \in 1..Len(History("red")) :
                History("red")[i] <= bottlesByColor["red"].initialPercent
    /\ \A c \in Known : \A item \in ReadingsFor(RawItems \cup Items, c) :
          LET old == bottlesByColor[c].initialPercent
              new == After(item, c).initialPercent
          IN  /\ FiniteReading(item.fill_level_percent) /\ old # null
                 => new # null /\ new >= old
              /\ ToNumber(item.fill_level_percent) = NaN => new = old

----------------------------------------------------------------------------
\* C16: with finite readings, in every reachable state the high-water
\* average of a color is set exactly when its history holds HISTORY_SIZE
\* values; a set mark with fewer than HISTORY_SIZE valid values does not
\* occur.
C16_MarkIffFull ==
    \A c \in Known :
        /\ HighWater(c) # null <=> Len(History(c)) = HISTORY_SIZE
        /\ Len(ValidHistory(History(c))) < HISTORY_SIZE => HighWater(c) = null

\* A full history with its mark at 60 in a bottle that once read 80: the
\* mark was set while, or after, the 80 left the history.
C16_Witness ==
    /\ "red" \in Known
    /\ History("red") = TenOf(60)
    /\ HighWater("red") = Percent(60)
    /\ bottlesByColor["red"].initialPercent = 80

----------------------------------------------------------------------------
\* C17: with finite readings, after every message, a set high-water
\* average is at least the current average of the row written from the
\* same history, and the consumed percent is their difference.
C17_MarkAboveCurrent ==
    \A c \in Known :
        HighWater(c) # null
        => /\ Row(c).avgCurrentPercent = TableRow(bottlesByColor[c]).avgCurrentPercent
           /\ Row(c).avgCurrentPercent # null
           /\ HighWater(c) >= Row(c).avgCurrentPercent
           /\ Row(c).consumedPercent = HighWater(c) - Row(c).avgCurrentPercent

\* The mark at 80 over a current average of 64.
C17_Witness ==
    /\ "red" \in Known
    /\ History("red") = [i \in 1..HISTORY_SIZE |-> IF i <= 2 THEN 80 ELSE 60]
    /\ HighWater("red") = Percent(80)
    /\ Row("red").avgCurrentPercent = Percent(64)
    /\ Row("red").consumedPercent = Percent(16)

----------------------------------------------------------------------------
\* C18 as claimed: on HISTORY_SIZE or more finite samples calculateFilteredAverage
\* retains at least one sample and removes fewer than a quarter of them,
\* and none when all samples are equal, the average then being that value;
\* so the average of a non-empty sequence of finite samples is a number.
C18_RetainsSome ==
    result # <<>>
    => LET r == result[1]
           n == Len(samples)
       IN  /\ n >= 1 => r.average # null /\ r.average # NaN
           /\ n >= HISTORY_SIZE =>
                 /\ Len(r.filteredHistory) >= 1
                 /\ 4 * r.removedCount < n
                 /\ (\A i \in 1..n : samples[i] = samples[1])
                    => r.removedCount = 0 /\ r.average = Percent(samples[1])

\* C18 as amended: that holds of whole numbers; of multiples of 2^-600,
\* where the squares of the deviations underflow and the threshold is 0,
\* the samples retained are those equal to the mean, the average is null
\* when there is none, and equal samples are all retained.
C18_RetainsSomeUnlessUnderflow ==
    result # <<>>
    => LET r == result[1]
           n == Len(samples)
           atMean == {i \in 1..n : n * samples[i] = SumAt(samples, 1..n)}
       IN  /\ n >= 1 /\ n < HISTORY_SIZE => r.average # null /\ r.removedCount = 0
           /\ n >= HISTORY_SIZE /\ unit = "one" =>
                 /\ Len(r.filteredHistory) >= 1
                 /\ r.average # null
                 /\ 4 * r.removedCount < n
           /\ n >= HISTORY_SIZE /\ unit = "tiny" =>
                 /\ Len(r.filteredHistory) = Cardinality(atMean)
                 /\ r.average = null <=> atMean = {}
           /\ n >= HISTORY_SIZE /\ (\A i \in 1..n : samples[i] = samples[1])
              => r.removedCount = 0 /\ r.average = Percent(samples[1])

\* One sample of 0 among nine of 50 is removed.
C18_Witness ==
    /\ result # <<>>
    /\ unit = "one"
    /\ samples = [i \in 1..HISTORY_SIZE |-> IF i = 1 THEN 0 ELSE 50]
    /\ result[1].removedCount = 1
    /\ result[1].filteredHistory = [i \in 1..(HISTORY_SIZE - 1) |-> 50]
    /\ result[1].average = Percent(50)

====
